---- MODULE Spec2Model ----
(***************************************************************************)
(* The two operator scripts of local-ai-packaged: start_basics.py          *)
(* (environment bring-up) and stop_all.py (teardown).  Each script is a    *)
(* straight-line sequence of functions that shell out to git, docker and   *)
(* openssl and edit two text files.  One action models one function of the *)
(* scripts; the outcome of every external command is an input of the       *)
(* action.  File contents are sequences of text tokens, and substring      *)
(* search and str.replace are computed on them as Python computes them.    *)
(***************************************************************************)
EXTENDS Integers, Sequences, FiniteSets, TLC

VARIABLES
    pc,            \* the function the running script executes next
    script,        \* "none", "start_basics" or "stop_all"
    args,          \* the parsed command line of the running script
    log,           \* the commands issued by the function that ran last
    runs,          \* number of script (or handler) runs started so far
    supabase,      \* the dependency repository directory: absent, bare, ready
    envFile,       \* whether ./.env exists
    settingsBase,  \* searxng/settings-base.yml
    settings,      \* searxng/settings.yml
    compose,       \* docker-compose.yml
    containers,    \* the host's containers as docker lists them, newest first
    cwdName,       \* base name of the working directory
    projectName,   \* the project_name local of stop_all.main
    runStart,      \* what the run found: the repository directory, local changes, a finished bring-up
    lastGen,       \* what generate_searxng_secret_key saw and did, until the next function ends
    secretHist,    \* how often a generated secret was written, and the first result
    detect,        \* what the first-run detection saw and decided, until the next function ends
    composeHist    \* the compose file at the start, and the last directive toggle

vars == <<pc, script, args, log, runs, supabase, envFile, settingsBase,
          settings, compose, containers, cwdName, projectName, runStart, lastGen,
          secretHist, detect, composeHist>>

\* ------------------------------------------------------------------ bounds

MaxRuns == 2
MaxContentLen == 4

\* --------------------------------------------------------------- constants

DefaultRetries == 3
RetryDelay == 5
InitWait == 10

\* ------------------------------------------------------------ text and files

\* 'ultrasecretkey', split so that a file can hold pieces of it.
Placeholder == <<"ultra", "secretkey">>
\* The outputs of a successful `openssl rand -hex 32`: 64 hex characters each.
HexSecrets == {"hex64_a", "hex64_b"}
SettingsTokens == {"ultra", "secretkey", "text", "hex64_a"}

\* "cap_drop: - ALL" and the pieces line 243 puts around it.
ActiveDirective == <<"cap_drop: - ALL">>
CommentedDirective ==
    <<"# ", "cap_drop: - ALL", "  # Temporarily commented out for first run">>
ComposeTokens ==
    {"# ", "cap_drop: - ALL", "  # Temporarily commented out for first run", "text"}

\* `sub in s`
Contains(s, sub) ==
    \E i \in 0..(Len(s) - Len(sub)) : SubSeq(s, i + 1, i + Len(sub)) = sub

\* s.replace(old, new): leftmost, non-overlapping occurrences.
RECURSIVE Replace(_, _, _)
Replace(s, old, new) ==
    IF Len(s) < Len(old) THEN s
    ELSE IF SubSeq(s, 1, Len(old)) = old
         THEN new \o Replace(SubSeq(s, Len(old) + 1, Len(s)), old, new)
         ELSE <<Head(s)>> \o Replace(Tail(s), old, new)

NoFile == [exists |-> FALSE, content |-> <<>>]
File(c) == [exists |-> TRUE, content |-> c]

SeqsUpTo(S, n) == UNION {[1..k -> S] : k \in 0..n}

\* ---------------------------------------------------------------- commands

Cmd(op, file, arg, project, ok) ==
    [op |-> op, file |-> file, arg |-> arg, project |-> project, ok |-> ok, secs |-> 0]
Sleep(secs) ==
    [op |-> "sleep", file |-> <<>>, arg |-> "", project |-> "", ok |-> TRUE, secs |-> secs]

Last(s) == s[Len(s)]
Ops(s) == [i \in 1..Len(s) |-> s[i].op]
\* Number of commands of l with the given op; number of tokens t in content c.
CountOp(l, op) == Cardinality({i \in 1..Len(l) : l[i].op = op})
CountToken(c, t) == Cardinality({i \in 1..Len(c) : c[i] = t})

\* ------------------------------------------------- run_command and sequences

Min(S) == CHOOSE x \in S : \A y \in S : x <= y

\* IssueAll that goes on after a failing command (run_command without check=True).
IssueAllUnchecked(cmds, oks) == [i \in 1..Len(cmds) |-> [cmds[i] EXCEPT !.ok = oks[i]]]

\* start_basics.run_command (check=True) called for cmds[1], cmds[2], ... with no
\* try around the calls: the first failing command raises and ends the sequence.
IssueAll(cmds, oks) ==
    LET fails == {i \in 1..Len(cmds) : ~oks[i]}
        n == IF fails = {} THEN Len(cmds) ELSE Min(fails)
    IN  [i \in 1..n |-> [cmds[i] EXCEPT !.ok = oks[i]]]

Failed(l) == l # <<>> /\ ~Last(l).ok

\* ------------------------------------------------------ clone_supabase_repo

GitCmd(op, arg) == Cmd(op, <<>>, arg, "", TRUE)

CloneCmds ==
    << GitCmd("git clone", "--filter=blob:none --no-checkout"),
       GitCmd("git sparse-checkout init", "--cone"),
       GitCmd("git sparse-checkout set", "docker"),
       GitCmd("git checkout", "master") >>

\* PullCmds with the stash taken after the pull.
PullCmdsStashLate(mods) ==
    IF mods
    THEN << GitCmd("git status", "--porcelain"), GitCmd("git pull", "--rebase=false"),
            GitCmd("git stash", "") >>
    ELSE << GitCmd("git status", "--porcelain"), GitCmd("git pull", "--rebase=false") >>

PullCmds(mods) ==
    IF mods
    THEN << GitCmd("git status", "--porcelain"), GitCmd("git stash", ""),
            GitCmd("git pull", "--rebase=false") >>
    ELSE << GitCmd("git status", "--porcelain"), GitCmd("git pull", "--rebase=false") >>

\* The function on a directory state dir, with local modifications mods, the
\* outcomes oks of the commands run unguarded and popOk of `git stash pop`.
CloneResult(dir, mods, oks, popOk) ==
    IF dir = "absent"
    THEN LET l == IssueAll(CloneCmds, oks)
         IN  [ log |-> l,
               aborted |-> Failed(l),
               supabase |-> IF ~l[1].ok THEN "absent"
                            ELSE IF Failed(l) THEN "bare" ELSE "ready" ]
    ELSE LET l == IssueAll(PullCmds(mods), oks)
             pop == IF mods /\ ~Failed(l)
                    THEN << [GitCmd("git stash pop", "") EXCEPT !.ok = popOk] >>
                    ELSE << >>
         IN  [ log |-> l \o pop,
               aborted |-> Failed(l),
               supabase |-> dir ]

\* ---------------------------------------------- generate_searxng_secret_key

OpensslOutcomes ==
    {[ok |-> FALSE, key |-> ""]} \cup {[ok |-> TRUE, key |-> k] : k \in HexSecrets}

\* SecretKeyResult without the write-back of lines 183-184.
SecretKeyResultNoWrite(base, st, copyOk, openssl) ==
    LET same == [settings |-> st, log |-> << >>, wrote |-> FALSE]
        run == Cmd("openssl rand", <<>>, "-hex 32", "", openssl.ok)
    IN  IF ~base.exists THEN same
        ELSE IF ~st.exists /\ ~copyOk THEN same
        ELSE LET cur == IF st.exists THEN st ELSE base
             IN  IF ~Contains(cur.content, Placeholder)
                 THEN [same EXCEPT !.settings = cur]
                 ELSE IF ~openssl.ok
                 THEN [settings |-> cur, log |-> <<run>>, wrote |-> FALSE]
                 ELSE [ settings |-> cur, log |-> <<run>>, wrote |-> TRUE ]

\* SecretKeyResult without the test of line 169: every run generates and writes.
SecretKeyResultAlways(base, st, copyOk, openssl) ==
    LET same == [settings |-> st, log |-> << >>, wrote |-> FALSE]
        run == Cmd("openssl rand", <<>>, "-hex 32", "", openssl.ok)
    IN  IF ~base.exists THEN same
        ELSE IF ~st.exists /\ ~copyOk THEN same
        ELSE LET cur == IF st.exists THEN st ELSE base
             IN  IF ~openssl.ok
                 THEN [settings |-> cur, log |-> <<run>>, wrote |-> FALSE]
                 ELSE [ settings |-> File(Replace(cur.content, Placeholder, <<openssl.key>>)),
                        log |-> <<run>>, wrote |-> TRUE ]

\* The function on the template file base and the settings file st; copyOk is
\* the outcome of shutil.copyfile, openssl that of `openssl rand -hex 32`.
SecretKeyResult(base, st, copyOk, openssl) ==
    LET same == [settings |-> st, log |-> << >>, wrote |-> FALSE]
        run == Cmd("openssl rand", <<>>, "-hex 32", "", openssl.ok)
    IN  IF ~base.exists THEN same
        ELSE IF ~st.exists /\ ~copyOk THEN same
        ELSE LET cur == IF st.exists THEN st ELSE base
             IN  IF ~Contains(cur.content, Placeholder)
                 THEN [same EXCEPT !.settings = cur]
                 ELSE IF ~openssl.ok
                 THEN [settings |-> cur, log |-> <<run>>, wrote |-> FALSE]
                 ELSE [ settings |-> File(Replace(cur.content, Placeholder, <<openssl.key>>)),
                        log |-> <<run>>, wrote |-> TRUE ]

\* ----------------------------------- check_and_fix_docker_compose_for_searxng

\* `docker ps --filter name=searxng --format {{.Names}}`: the running containers
\* whose name contains searxng.
SearxngNames(cs) ==
    LET hit == SelectSeq(cs, LAMBDA c : c.running /\ Contains(c.name, <<"searxng">>))
    IN  [i \in 1..Len(hit) |-> hit[i].name]

\* stdout of `[ -f /etc/searxng/uwsgi.ini ] && echo 'found' || echo 'not_found'`
\* run by docker exec; nothing is printed when docker exec itself fails.
ExecStdout(execOk, marker) ==
    IF ~execOk THEN << >> ELSE IF marker THEN <<"found">> ELSE <<"not_", "found">>

\* is_first_run as lines 207-238 compute it.
IsFirstRun(psOk, names, stdout) ==
    IF ~psOk THEN TRUE
    ELSE IF names = << >> THEN TRUE
    ELSE ~Contains(stdout, <<"found">>)

\* line 243
ApplyFirstRun(content) == Replace(content, ActiveDirective, CommentedDirective)

\* RestoreDirective that uncomments the line and leaves the trailing note.
RestoreKeepsNote(content) ==
    Replace(content, <<"# ", "cap_drop: - ALL">>, ActiveDirective)

\* line 253
RestoreDirective(content) == Replace(content, CommentedDirective, ActiveDirective)

\* "first": the branch of line 240 ran, "restore": that of line 250, else "none".
ToggleBranch(content, firstRun) ==
    IF firstRun /\ Contains(content, ActiveDirective) THEN "first"
    ELSE IF ~firstRun /\ Contains(content, CommentedDirective) THEN "restore"
    ELSE "none"

ComposeAfter(content, firstRun) ==
    CASE ToggleBranch(content, firstRun) = "first" -> ApplyFirstRun(content)
      [] ToggleBranch(content, firstRun) = "restore" -> RestoreDirective(content)
      [] OTHER -> content

DetectLog(psOk, names, execOk) ==
    << Cmd("docker ps", <<>>, "--filter name=searxng", "", psOk) >>
    \o (IF psOk /\ names # << >>
        THEN << Cmd("docker exec", <<>>, "[ -f /etc/searxng/uwsgi.ini ]", "", execOk) >>
        ELSE << >>)

NoDetect == [ran |-> FALSE, psOk |-> FALSE, running |-> FALSE, execOk |-> FALSE,
             marker |-> FALSE, firstRun |-> TRUE, branch |-> "none"]

\* ------------------------------------------------------------- retried starts

\* The loop of lines 100-110 (and 127-137) from attempt on: the commands and
\* sleeps it issues when attempt k+1 ends as oks[k+1].  It ends by returning
\* after a success, by raising after the last failure, or by running out of range.
\* RetryLog with the test of line 105 off by one: a sleep follows the last
\* failure too, and the loop then runs out instead of raising.
RECURSIVE RetryLogSleepsLast(_, _, _, _)
RetryLogSleepsLast(cmd, oks, attempt, retries) ==
    IF attempt >= retries THEN << >>
    ELSE IF oks[attempt + 1] THEN << [cmd EXCEPT !.ok = TRUE] >>
    ELSE << [cmd EXCEPT !.ok = FALSE], Sleep(RetryDelay) >>
         \o RetryLogSleepsLast(cmd, oks, attempt + 1, retries)

RECURSIVE RetryLog(_, _, _, _)
RetryLog(cmd, oks, attempt, retries) ==
    IF attempt >= retries THEN << >>
    ELSE IF oks[attempt + 1] THEN << [cmd EXCEPT !.ok = TRUE] >>
    ELSE IF attempt < retries - 1
         THEN << [cmd EXCEPT !.ok = FALSE], Sleep(RetryDelay) >>
              \o RetryLog(cmd, oks, attempt + 1, retries)
         ELSE << [cmd EXCEPT !.ok = FALSE] >>

SupabaseCompose == "supabase/docker/docker-compose.yml"
MainCompose == "docker-compose.yml"
BasicServices == <<"postgres", "n8n", "neo4j", "searxng">>

SupabaseUpCmd(environment) ==
    Cmd("compose up", 
        <<SupabaseCompose>> \o (IF environment = "public"
                                THEN <<"docker-compose.override.public.supabase.yml">>
                                ELSE << >>),
        "-d", "localai", TRUE)

BasicUpCmd(environment) ==
    Cmd("compose up",
        <<MainCompose>>
        \o (IF environment = "private" THEN <<"docker-compose.override.private.yml">> ELSE << >>)
        \o (IF environment = "public" THEN <<"docker-compose.override.public.yml">> ELSE << >>),
        "-d postgres n8n neo4j searxng", "localai", TRUE)

\* ------------------------------------------------------------------ containers

SupabaseContainer ==
    [name |-> <<"supabase", "-db">>, project |-> "localai", stack |-> "supabase",
     running |-> TRUE]
SearxngContainer ==
    [name |-> <<"searxng">>, project |-> "localai", stack |-> "main", running |-> TRUE]

\* A successful `compose up`: the stack's container runs, created if need be.
Up(cs, c) ==
    IF \E i \in 1..Len(cs) : cs[i].name = c.name /\ cs[i].project = c.project
    THEN [i \in 1..Len(cs) |->
            IF cs[i].name = c.name /\ cs[i].project = c.project
            THEN [cs[i] EXCEPT !.running = TRUE] ELSE cs[i]]
    ELSE <<c>> \o cs

\* A successful `compose -p project -f <stack's file> down`.
Down(cs, project, stack) ==
    SelectSeq(cs, LAMBDA c : ~(c.project = project /\ c.stack = stack))

\* A successful `compose -p project stop service`.
Stop(cs, project, service) ==
    [i \in 1..Len(cs) |->
        IF cs[i].project = project /\ cs[i].name = <<service>>
        THEN [cs[i] EXCEPT !.running = FALSE] ELSE cs[i]]


\* ------------------------------------------------------------ stop_all.py

Matches(name) == Contains(name, <<"supabase">>) \/ Contains(name, <<"local-ai-packaged">>)

\* get_project_name on the listing cs: psOk is the outcome of `docker ps -a`,
\* insp[i] that of `docker inspect` on cs[i].
ProjectNameResult(cs, cwd, psOk, insp) ==
    LET ps == Cmd("docker ps -a", <<>>, "--format {{.Names}}", "", psOk)
        inspect(i) == Cmd("docker inspect", <<>>, "com.docker.compose.project", "", insp[i])
        matches == {i \in 1..Len(cs) : Matches(cs[i].name)}
        hits == {i \in matches : insp[i] /\ cs[i].project # ""}
        upto == IF hits = {} THEN Len(cs) ELSE Min(hits)
        tried == SelectSeq([i \in 1..upto |-> i], LAMBDA i : i \in matches)
    IN  IF ~psOk \/ cs = << >>
        THEN [name |-> cwd, log |-> <<ps>>]
        ELSE [ name |-> IF hits = {} THEN cwd ELSE cs[Min(hits)].project,
               log |-> <<ps>> \o [k \in 1..Len(tried) |-> inspect(tried[k])] ]

Profiles == <<"cpu", "gpu-nvidia", "gpu-amd">>

DownCmd(project, profile, file, ok) == Cmd("compose down", <<file>>, profile, project, ok)

\* StopAllLog without the final command of lines 124-125.
StopAllLogProfilesOnly(project, oks) ==
    [i \in 1..Len(Profiles) |-> DownCmd(project, Profiles[i], MainCompose, oks[i])]

\* The commands of stop_all_localai_containers; oks are their outcomes.
StopAllLog(project, oks) ==
    [i \in 1..Len(Profiles) |-> DownCmd(project, Profiles[i], MainCompose, oks[i])]
    \o << DownCmd(project, "", MainCompose, oks[Len(Profiles) + 1]) >>

\* The commands of stop_local_ai_stack on the compose file composeFile.
StopStackLog(project, profile, composeFile, ok) ==
    IF ~composeFile.exists THEN << >>
    ELSE << DownCmd(project, IF profile # "none" THEN profile ELSE "", MainCompose, ok) >>

\* The containers left by the successful commands of l, in order.
RECURSIVE AfterDowns(_, _)
AfterDowns(cs, l) ==
    IF l = << >> THEN cs
    ELSE AfterDowns(IF Head(l).ok THEN Down(cs, Head(l).project, "main") ELSE cs, Tail(l))

\* ------------------------------------------------------------------- state

NoGen == [ran |-> FALSE, before |-> NoFile, base |-> FALSE, invoked |-> FALSE,
          ok |-> FALSE, key |-> ""]
NoArgs == [environment |-> "", profile |-> "", check_remaining |-> FALSE]

ForeignContainer ==
    [name |-> <<"other_", "supabase">>, project |-> "other", stack |-> "supabase",
     running |-> TRUE]

TemplateSettings == <<"text", "ultra", "secretkey">>

TypeInit ==
    /\ pc = "idle" /\ script = "none" /\ args = NoArgs
    /\ log = << >> /\ runs = 0
    /\ projectName = ""
    /\ runStart = [supabase |-> supabase, initial |-> supabase, mods |-> FALSE,
                   afterBringUp |-> FALSE]
    /\ lastGen = NoGen
    /\ secretHist = [count |-> 0, first |-> << >>]
    /\ detect = NoDetect
    /\ composeHist = [init |-> compose.content, phase |-> "none", orig |-> << >>]

Init ==
    /\ supabase \in {"absent", "ready"}
    /\ envFile \in BOOLEAN
    /\ settingsBase \in {NoFile, File(TemplateSettings)}
    /\ settings \in {NoFile, File(TemplateSettings)}
    /\ compose \in {NoFile, File(<<"text", "cap_drop: - ALL">>)}
    /\ containers \in {<< >>, <<ForeignContainer>>}
    /\ cwdName \in {"localai", "local-ai-packaged"}
    /\ TypeInit

fsVars == <<supabase, envFile, settingsBase, settings, compose>>
secretVars == <<lastGen, secretHist>>
composeVars == <<detect, composeHist>>
hostVars == <<containers, cwdName, projectName>>
runVars == <<script, args, runs>>

\* ------------------------------------------------------- start_basics.main

main_start_basics ==
    /\ pc \in {"idle", "finished", "aborted"} /\ runs < MaxRuns
    /\ \E environment \in {"private", "public"} :
          args' = [NoArgs EXCEPT !.environment = environment]
    /\ script' = "start_basics" /\ runs' = runs + 1
    /\ pc' = "clone_supabase_repo"
    /\ log' = << >>
    /\ \E mods \in (IF supabase = "absent" THEN {FALSE} ELSE BOOLEAN) :
          runStart' = [runStart EXCEPT !.supabase = supabase, !.mods = mods,
                                       !.afterBringUp = FALSE]
    /\ lastGen' = NoGen /\ detect' = NoDetect /\ projectName' = ""
    /\ UNCHANGED <<fsVars, containers, cwdName, secretHist, composeHist>>

clone_supabase_repo ==
    /\ pc = "clone_supabase_repo"
    /\ \E oks \in [1..Len(CloneCmds) -> BOOLEAN], popOk \in BOOLEAN :
          LET r == CloneResult(supabase, runStart.mods, oks, popOk)
          IN  /\ log' = r.log
              /\ supabase' = r.supabase
              /\ pc' = IF r.aborted THEN "aborted" ELSE "prepare_supabase_env"
    /\ UNCHANGED <<envFile, settingsBase, settings, compose, hostVars, runVars,
                   runStart, secretVars, composeVars>>

\* shutil.copyfile(".env", "supabase/docker/.env") raises when the source or the
\* target directory is missing; nothing catches it.
prepare_supabase_env ==
    /\ pc = "prepare_supabase_env"
    /\ pc' = IF envFile /\ supabase = "ready"
             THEN "generate_searxng_secret_key" ELSE "aborted"
    /\ log' = << >>
    /\ UNCHANGED <<fsVars, hostVars, runVars, runStart, secretVars, composeVars>>

GenerateEffect(copyOk, openssl) ==
    LET r == SecretKeyResult(settingsBase, settings, copyOk, openssl)
    IN  /\ settings' = r.settings
        /\ log' = r.log
        /\ lastGen' = [ran |-> TRUE, before |-> settings, base |-> settingsBase.exists,
                       invoked |-> r.log # << >>,
                       ok |-> r.wrote,
                       key |-> IF r.wrote THEN openssl.key ELSE ""]
        /\ secretHist' = IF r.wrote
                         THEN [count |-> secretHist.count + 1,
                               first |-> IF secretHist.count = 0
                                         THEN r.settings.content ELSE secretHist.first]
                         ELSE secretHist

generate_searxng_secret_key ==
    /\ pc = "generate_searxng_secret_key"
    /\ \E copyOk \in BOOLEAN, openssl \in OpensslOutcomes : GenerateEffect(copyOk, openssl)
    /\ pc' = "check_and_fix_docker_compose_for_searxng"
    /\ UNCHANGED <<supabase, envFile, settingsBase, compose, hostVars, runVars,
                   runStart, composeVars>>

CheckAndFixEffect(psOk, execOk, marker) ==
    IF ~compose.exists
    THEN /\ log' = << >>
         /\ UNCHANGED <<compose, composeVars>>
    ELSE LET names == SearxngNames(containers)
             running == psOk /\ names # << >>
             firstRun == IsFirstRun(psOk, names, ExecStdout(execOk, marker))
             branch == ToggleBranch(compose.content, firstRun)
         IN  /\ log' = DetectLog(psOk, names, execOk)
             /\ compose' = File(ComposeAfter(compose.content, firstRun))
             /\ detect' = [ran |-> TRUE, psOk |-> psOk, running |-> running,
                           execOk |-> running /\ execOk,
                           marker |-> running /\ execOk /\ marker,
                           firstRun |-> firstRun, branch |-> branch]
             /\ composeHist' =
                    CASE branch = "first" ->
                            [composeHist EXCEPT !.phase = "applied", !.orig = compose.content]
                      [] branch = "restore" ->
                            IF composeHist.phase = "applied"
                            THEN [composeHist EXCEPT !.phase = "reversed"]
                            ELSE [composeHist EXCEPT !.phase = "none", !.orig = << >>]
                      [] OTHER -> composeHist

check_and_fix_docker_compose_for_searxng ==
    /\ pc = "check_and_fix_docker_compose_for_searxng"
    /\ \E psOk \in BOOLEAN, execOk \in BOOLEAN, marker \in BOOLEAN :
          CheckAndFixEffect(psOk, execOk, marker)
    /\ pc' = "stop_existing_containers"
    /\ lastGen' = NoGen
    /\ UNCHANGED <<supabase, envFile, settingsBase, settings, hostVars, runVars,
                   runStart, secretHist>>

StopCmds ==
    << Cmd("compose down", <<SupabaseCompose>>, "", "localai", TRUE) >>
    \o [i \in 1..Len(BasicServices) |->
          Cmd("compose stop", <<MainCompose, "docker-compose.override.private.yml">>,
              BasicServices[i], "localai", TRUE)]

\* StopLog with one try around all the commands: the first failure ends them.
StopLogOneTry(oks) == IssueAll(StopCmds, oks)

\* Every command is run in a try of its own (lines 75-89): all are issued.
StopLog(oks) == [i \in 1..Len(StopCmds) |-> [StopCmds[i] EXCEPT !.ok = oks[i]]]

RECURSIVE AfterStops(_, _)
AfterStops(cs, l) ==
    IF l = << >> THEN cs
    ELSE LET c == Head(l)
             next == IF ~c.ok THEN cs
                     ELSE IF c.op = "compose down" THEN Down(cs, c.project, "supabase")
                     ELSE Stop(cs, c.project, c.arg)
         IN  AfterStops(next, Tail(l))

stop_existing_containers ==
    /\ pc = "stop_existing_containers"
    /\ \E oks \in [1..Len(StopCmds) -> BOOLEAN] :
          /\ log' = StopLog(oks)
          /\ containers' = AfterStops(containers, StopLog(oks))
    /\ pc' = "start_supabase"
    /\ detect' = NoDetect
    /\ UNCHANGED <<fsVars, cwdName, projectName, runVars, runStart, secretVars, composeHist>>

start_supabase ==
    /\ pc = "start_supabase"
    /\ \E oks \in [1..DefaultRetries -> BOOLEAN] :
          LET l == RetryLog(SupabaseUpCmd(args.environment), oks, 0, DefaultRetries)
          IN  /\ log' = l
              /\ pc' = IF Failed(l) THEN "aborted" ELSE "main_wait"
              /\ containers' = IF Failed(l) THEN containers
                               ELSE Up(containers, SupabaseContainer)
    /\ UNCHANGED <<fsVars, cwdName, projectName, runVars, runStart,
                   secretVars, composeVars>>

\* time.sleep(10) of main, between the two starts.
main_wait ==
    /\ pc = "main_wait"
    /\ log' = << Sleep(InitWait) >>
    /\ pc' = "start_basic_services"
    /\ UNCHANGED <<fsVars, hostVars, runVars, runStart, secretVars, composeVars>>

start_basic_services ==
    /\ pc = "start_basic_services"
    /\ \E oks \in [1..DefaultRetries -> BOOLEAN] :
          LET l == RetryLog(BasicUpCmd(args.environment), oks, 0, DefaultRetries)
          IN  /\ log' = l
              /\ pc' = IF Failed(l) THEN "aborted" ELSE "finished"
              /\ containers' = IF Failed(l) THEN containers
                               ELSE Up(containers, SearxngContainer)
    /\ UNCHANGED <<fsVars, cwdName, projectName, runVars, runStart,
                   secretVars, composeVars>>

\* ------------------------------------------------------------ stop_all.main

ProfileChoices == {"cpu", "gpu-nvidia", "gpu-amd", "all", "none"}

main_stop_all ==
    /\ pc \in {"idle", "finished", "aborted"} /\ runs < MaxRuns
    /\ \E profile \in ProfileChoices, check \in BOOLEAN :
          args' = [NoArgs EXCEPT !.profile = profile, !.check_remaining = check]
    /\ script' = "stop_all" /\ runs' = runs + 1
    /\ pc' = "get_project_name"
    /\ log' = << >>
    /\ runStart' = [runStart EXCEPT !.supabase = supabase, !.mods = FALSE,
                                    !.afterBringUp = (script = "start_basics" /\ pc = "finished")]
    /\ lastGen' = NoGen /\ detect' = NoDetect /\ projectName' = ""
    /\ UNCHANGED <<fsVars, containers, cwdName, secretHist, composeHist>>

get_project_name ==
    /\ pc = "get_project_name"
    /\ \E psOk \in BOOLEAN, insp \in [1..Len(containers) -> BOOLEAN] :
          LET r == ProjectNameResult(containers, cwdName, psOk, insp)
          IN  /\ projectName' = r.name
              /\ log' = r.log
    /\ pc' = "stop_supabase_stack"
    /\ UNCHANGED <<fsVars, containers, cwdName, runVars, runStart, secretVars, composeVars>>

\* supabase/docker/docker-compose.yml exists once the repository is checked out.
stop_supabase_stack ==
    /\ pc = "stop_supabase_stack"
    /\ \E ok \in BOOLEAN :
          LET l == IF supabase # "ready" THEN << >>
                   ELSE << DownCmd(projectName, "", SupabaseCompose, ok) >>
          IN  /\ log' = l
              /\ containers' = IF l # << >> /\ ok
                               THEN Down(containers, projectName, "supabase")
                               ELSE containers
    /\ pc' = IF args.profile = "all" THEN "stop_all_localai_containers"
             ELSE "stop_local_ai_stack"
    /\ UNCHANGED <<fsVars, cwdName, projectName, runVars, runStart, secretVars, composeVars>>

AfterPrimary == IF args.check_remaining THEN "list_remaining_containers" ELSE "finished"

stop_all_localai_containers ==
    /\ pc = "stop_all_localai_containers"
    /\ \E oks \in [1..(Len(Profiles) + 1) -> BOOLEAN] :
          LET l == StopAllLog(projectName, oks)
          IN  /\ log' = l
              /\ containers' = AfterDowns(containers, l)
    /\ pc' = AfterPrimary
    /\ UNCHANGED <<fsVars, cwdName, projectName, runVars, runStart, secretVars, composeVars>>

stop_local_ai_stack ==
    /\ pc = "stop_local_ai_stack"
    /\ \E ok \in BOOLEAN :
          LET l == StopStackLog(projectName, args.profile, compose, ok)
          IN  /\ log' = l
              /\ containers' = AfterDowns(containers, l)
    /\ pc' = AfterPrimary
    /\ UNCHANGED <<fsVars, cwdName, projectName, runVars, runStart, secretVars, composeVars>>

list_remaining_containers ==
    /\ pc = "list_remaining_containers"
    /\ \E ok \in BOOLEAN :
          LET l == << Cmd("docker ps -a", <<>>, "--filter label=com.docker.compose.project",
                          projectName, ok) >>
          IN  /\ log' = l
    /\ pc' = "finished"
    /\ UNCHANGED <<fsVars, hostVars, runVars, runStart, secretVars, composeVars>>

Next ==
    \/ main_start_basics
    \/ clone_supabase_repo
    \/ prepare_supabase_env
    \/ generate_searxng_secret_key
    \/ check_and_fix_docker_compose_for_searxng
    \/ stop_existing_containers
    \/ start_supabase
    \/ main_wait
    \/ start_basic_services
    \/ main_stop_all
    \/ get_project_name
    \/ stop_supabase_stack
    \/ stop_all_localai_containers
    \/ stop_local_ai_stack
    \/ list_remaining_containers

Spec == Init /\ [][Next]_vars

\* ------------------------------------------------- the two file handlers alone

\* Repeated runs of generate_searxng_secret_key, the only code that touches
\* searxng/settings.yml, from every settings file of up to MaxContentLen tokens.
GenerateRun ==
    /\ pc = "idle" /\ runs < MaxRuns
    /\ runs' = runs + 1
    /\ \E copyOk \in BOOLEAN, openssl \in OpensslOutcomes : GenerateEffect(copyOk, openssl)
    /\ UNCHANGED <<pc, script, args, supabase, envFile, settingsBase, compose, hostVars,
                   runStart, composeVars>>

InitSecret ==
    /\ supabase = "ready" /\ envFile = TRUE
    /\ settingsBase \in {NoFile, File(TemplateSettings)}
    /\ settings \in {NoFile} \cup {File(c) : c \in SeqsUpTo(SettingsTokens, MaxContentLen)}
    /\ compose = NoFile
    /\ containers = << >>
    /\ cwdName = "localai"
    /\ TypeInit

SpecSecret == InitSecret /\ [][GenerateRun]_vars

\* Repeated runs of check_and_fix_docker_compose_for_searxng, the only code that
\* touches docker-compose.yml, from every compose file of up to MaxContentLen tokens.
CheckAndFixRun ==
    /\ pc = "idle" /\ runs < MaxRuns
    /\ runs' = runs + 1
    /\ \E psOk \in BOOLEAN, execOk \in BOOLEAN, marker \in BOOLEAN :
          CheckAndFixEffect(psOk, execOk, marker)
    /\ UNCHANGED <<pc, script, args, supabase, envFile, settingsBase, settings, hostVars,
                   runStart, secretVars>>

InitCompose ==
    /\ supabase = "ready" /\ envFile = TRUE
    /\ settingsBase = NoFile /\ settings = NoFile
    /\ compose \in {NoFile} \cup {File(c) : c \in SeqsUpTo(ComposeTokens, MaxContentLen)}
    /\ containers \in {<< >>, <<SearxngContainer>>}
    /\ cwdName = "localai"
    /\ TypeInit

SpecCompose == InitCompose /\ [][CheckAndFixRun]_vars

\* ------------------------------------------------------------------- claims

\* The log is that of one of the two start functions.
StartLog == log # << >> /\ log[1].op = "compose up"
Attempts(l) == CountOp(l, "compose up")
Waits(l) == CountOp(l, "sleep")

\* C1: a start operation (start_supabase or start_basic_services, 3 attempts by
\* default) makes at most three attempts, every attempt but the last one made
\* has failed, a 5-second wait lies between two consecutive attempts and nowhere
\* else; it raises exactly when the third attempt has failed (after two waits),
\* and returns without raising when an attempt succeeds, the third included.
C1_RetryThenRaise ==
    StartLog =>
        /\ Attempts(log) <= 3
        /\ Len(log) = 2 * Attempts(log) - 1
        /\ \A i \in 1..Len(log) :
              IF i % 2 = 1
              THEN log[i].op = "compose up" /\ log[i].project = "localai"
                   /\ (i < Len(log) => ~log[i].ok)
              ELSE log[i].op = "sleep" /\ log[i].secs = 5
        /\ (pc = "aborted") = ~Last(log).ok
        /\ (~Last(log).ok => Attempts(log) = 3 /\ Waits(log) = 2)
        /\ (Last(log).ok => pc \in {"main_wait", "finished"})

\* start_basic_services failed twice and succeeded on its third attempt.
C1_Witness ==
    /\ StartLog /\ pc = "finished"
    /\ Attempts(log) = 3 /\ ~log[1].ok /\ ~log[3].ok /\ log[5].ok

\* The settings file held the placeholder when generate_searxng_secret_key ran.
HadPlaceholder ==
    lastGen.ran /\ lastGen.before.exists /\ Contains(lastGen.before.content, Placeholder)

Replaced ==
    /\ lastGen.invoked /\ lastGen.ok
    /\ lastGen.key \in HexSecrets
    /\ Contains(settings.content, <<lastGen.key>>)
    /\ ~Contains(settings.content, Placeholder)

\* C2 as stated: if the settings file holds the placeholder when bring-up runs,
\* then afterwards it holds a 64-character hex secret and no placeholder,
\* whatever the filesystem holds and however the openssl subprocess ends.
C2_AlwaysReplaced == HadPlaceholder => Replaced

\* C2 as amended: if the settings file holds the placeholder when
\* generate_searxng_secret_key runs, the template settings-base.yml exists and
\* the openssl subprocess succeeds, then afterwards the settings file holds the
\* generated 64-character hex secret and no placeholder; if the template is absent
\* or the subprocess fails, the settings file is left as it was.
C2_ReplacedWhenGenerated ==
    HadPlaceholder =>
        IF lastGen.base /\ ~(lastGen.invoked /\ ~lastGen.ok)
        THEN Replaced
        ELSE settings = lastGen.before

\* Both occurrences of the placeholder in a file were replaced by the secret.
C2_Witness ==
    /\ HadPlaceholder /\ Replaced
    /\ CountToken(lastGen.before.content, "ultra") = 2
    /\ CountToken(settings.content, lastGen.key) = 2

\* C3: across any number of runs the placeholder is replaced at most once; once
\* a run has written a generated secret, every later run leaves the settings
\* file as that run wrote it, and the placeholder is not in it.
C3_ReplacedOnce ==
    /\ secretHist.count <= 1
    /\ (secretHist.count = 1 =>
            /\ settings.exists
            /\ settings.content = secretHist.first
            /\ ~Contains(settings.content, Placeholder))

\* A run after the one that wrote the secret found nothing to do.
C3_Witness ==
    /\ secretHist.count = 1 /\ runs >= 2
    /\ lastGen.ran /\ ~lastGen.invoked
    /\ lastGen.before = settings /\ settings.content = secretHist.first

\* A directive line of content at i is active: no comment mark before it and
\* no first-run note after it.
IsActive(c, i) ==
    /\ (i = 1 \/ c[i - 1] # "# ")
    /\ (i = Len(c) \/ c[i + 1] # "  # Temporarily commented out for first run")

\* A directive line of content at i is commented out once: exactly
\* '# cap_drop: - ALL  # Temporarily commented out for first run'.
IsCommentedOnce(c, i) ==
    /\ i > 1 /\ i < Len(c)
    /\ SubSeq(c, i - 1, i + 1) = CommentedDirective
    /\ (i = 2 \/ c[i - 2] # "# ")
    /\ (i + 1 = Len(c) \/ c[i + 2] # "  # Temporarily commented out for first run")

TwoForms(c) ==
    \A i \in 1..Len(c) : c[i] = "cap_drop: - ALL" => IsActive(c, i) \/ IsCommentedOnce(c, i)

\* C4: after any sequence of runs on a compose file whose directive lines are each
\* active or commented out once, every directive line is still in one of these
\* two forms; and a first-run detection on a file that holds no active line (all
\* are commented out) leaves the file as it is.
C4_TwoForms ==
    TwoForms(composeHist.init) =>
        /\ TwoForms(compose.content)
        /\ (detect.branch = "first" =>
                \E i \in 1..Len(composeHist.orig) :
                    composeHist.orig[i] = "cap_drop: - ALL" /\ IsActive(composeHist.orig, i))

\* C5: when the first-run replacement (line 243) has been applied to a compose
\* file and the not-first-run replacement (line 253) has then been applied to the
\* result, the file is token for token what it was before the two.
C5_RoundTrip == composeHist.phase = "reversed" => compose.content = composeHist.orig

\* A file with an active and an already commented-out directive went through
\* the toggle and its reversal.
C5_Witness ==
    /\ composeHist.phase = "reversed"
    /\ Contains(composeHist.orig, CommentedDirective)
    /\ composeHist.orig[1] = "cap_drop: - ALL"

\* C6: the run is classified as not first run exactly when a searxng container
\* is running and the check inside it reports the marker file present; the
\* commented-out directive is restored only then.
C6_MarkerDecides ==
    detect.ran =>
        /\ (~detect.firstRun) = (detect.running /\ detect.marker)
        /\ (detect.branch = "restore" => detect.running /\ detect.marker)

\* The log is that of the function that stops the primary stack.
PrimaryDone ==
    /\ script = "stop_all"
    /\ \/ pc = "list_remaining_containers"
       \/ pc = "finished" /\ ~args.check_remaining

PrimaryDown(c, profile) ==
    /\ c.op = "compose down" /\ c.file = <<"docker-compose.yml">>
    /\ c.arg = profile /\ c.project = projectName

AllProfilesStopped ==
    /\ Len(log) = 4
    /\ \A p \in {"cpu", "gpu-nvidia", "gpu-amd", ""} :
          Cardinality({i \in 1..Len(log) : PrimaryDown(log[i], p)}) = 1

OneScopedStop == Len(log) = 1 /\ PrimaryDown(log[1], args.profile)

NamedProfile == args.profile \in {"cpu", "gpu-nvidia", "gpu-amd"}

\* C7 as stated: teardown with --profile all issues one primary-stack stop per
\* profile cpu, gpu-nvidia and gpu-amd plus exactly one without a profile; with a
\* single named profile it issues exactly one, scoped to that profile; whatever
\* the filesystem holds and however the stop commands end.
C7_StopsIssued ==
    PrimaryDone =>
        /\ (args.profile = "all" => AllProfilesStopped)
        /\ (NamedProfile => OneScopedStop)

\* C7 as amended: with --profile all, as stated; with a single named profile,
\* exactly one stop scoped to that profile when docker-compose.yml exists, and no
\* primary-stack stop at all when it does not.
C7_StopsIssuedIfComposeFile ==
    PrimaryDone =>
        /\ (args.profile = "all" => AllProfilesStopped)
        /\ (NamedProfile => IF compose.exists THEN OneScopedStop ELSE log = << >>)

\* --profile all with no compose file: the four stops were issued, one failed.
C7_Witness ==
    /\ PrimaryDone /\ args.profile = "all" /\ ~compose.exists
    /\ AllProfilesStopped /\ ~log[2].ok /\ log[4].ok

GitFatalOps ==
    {"git clone", "git sparse-checkout init", "git sparse-checkout set", "git checkout",
     "git status", "git stash", "git pull"}

FailedAt(i) == ~log[i].ok

\* C8 as stated: a failing command that is neither a tolerated best-effort step
\* nor a retried start ends the run at once, so it is the last command issued;
\* the openssl subprocess of bring-up and every compose down of teardown included.
C8_OtherFailuresFatal ==
    \A i \in 1..Len(log) :
        ( /\ FailedAt(i)
          /\ \/ log[i].op \in GitFatalOps \cup {"openssl rand"}
             \/ script = "stop_all" /\ log[i].op = "compose down" )
        => pc = "aborted" /\ i = Len(log)

\* C8 as amended: in bring-up a failing git clone, sparse-checkout, checkout,
\* status, stash or pull ends the run at once (it is the last command issued); a
\* failing openssl subprocess is caught: the settings file keeps its placeholder
\* and the run goes on to the next step; teardown is never ended by a failing
\* command: a failing compose down is followed by the rest of the stops.
C8_GitFailuresFatal ==
    /\ \A i \in 1..Len(log) :
          /\ (FailedAt(i) /\ log[i].op \in GitFatalOps => pc = "aborted" /\ i = Len(log))
          /\ (FailedAt(i) /\ log[i].op = "openssl rand" =>
                 /\ pc = "check_and_fix_docker_compose_for_searxng"
                 /\ Contains(settings.content, Placeholder)
                 /\ (lastGen.before.exists => settings = lastGen.before))
    /\ (script = "stop_all" =>
          /\ pc # "aborted"
          /\ (PrimaryDone /\ args.profile = "all" => Len(log) = 4))

\* The run ended at a failing git stash: no pull was issued.
C8_Witness ==
    /\ pc = "aborted" /\ Len(log) = 2
    /\ log[2].op = "git stash" /\ FailedAt(2)

BestEffortOps == {"git stash pop", "docker ps", "docker exec", "compose down", "compose stop"}

\* C9: in bring-up a failing Supabase down, per-service stop, git stash pop or
\* container inspection never ends the run: the function it fails in returns and
\* the next step follows; the run is ended only by a failing git command, a
\* failed copy of .env or an exhausted start, so it otherwise reaches the start of
\* the dependency stack; and the four per-service stops are all attempted, in
\* order, whichever of them fail.
C9_BestEffort ==
    script = "start_basics" =>
        /\ \A i \in 1..Len(log) :
              FailedAt(i) /\ log[i].op \in BestEffortOps => pc # "aborted"
        /\ (pc = "aborted" =>
              \/ log = << >>
              \/ Failed(log) /\ Last(log).op \in GitFatalOps \cup {"compose up"})
        /\ (log # << >> /\ log[1].op = "compose down" =>
              /\ pc = "start_supabase"
              /\ Len(log) = 5
              /\ \A k \in 1..4 :
                    log[k + 1].op = "compose stop" /\ log[k + 1].arg = BasicServices[k])

\* The run reached the start of the dependency stack although the Supabase down
\* and the first two stops had failed; the last two stops were still made.
C9_Witness ==
    /\ script = "start_basics" /\ pc = "start_supabase"
    /\ Len(log) = 5 /\ log[1].op = "compose down"
    /\ ~log[1].ok /\ ~log[2].ok /\ ~log[3].ok /\ log[4].ok /\ log[5].ok

\* The log is that of clone_supabase_repo.
CloneLog ==
    script = "start_basics" /\ log # << >> /\ log[1].op \in {"git clone", "git status"}
Has(op) == \E i \in 1..Len(log) : log[i].op = op
Before(a, b) ==
    \A i, j \in 1..Len(log) : log[i].op = a /\ log[j].op = b => i < j

\* C10: a run that finds the repository directory absent starts with a clone
\* without checkout, issues no pull, and completes the step only with the
\* sparse checkout set to the one directory 'docker'; a run that finds the
\* directory issues no clone and completes the step only after one pull; with
\* local modifications the pull comes after a stash and, once it succeeded, is
\* followed by a stash pop; without them neither is issued.
C10_CloneThenPull ==
    CloneLog =>
        /\ (runStart.supabase = "absent" =>
              /\ log[1].op = "git clone" /\ log[1].arg = "--filter=blob:none --no-checkout"
              /\ ~Has("git pull")
              /\ (pc = "prepare_supabase_env" =>
                    /\ Ops(log) = <<"git clone", "git sparse-checkout init",
                                    "git sparse-checkout set", "git checkout">>
                    /\ log[3].arg = "docker"))
        /\ (runStart.supabase # "absent" =>
              /\ ~Has("git clone")
              /\ (pc = "prepare_supabase_env" =>
                    CountOp(log, "git pull") = 1))
        /\ (runStart.mods /\ Has("git pull") =>
              Has("git stash") /\ Before("git stash", "git pull"))
        /\ (runStart.mods /\ pc = "prepare_supabase_env" =>
              Last(log).op = "git stash pop" /\ Before("git pull", "git stash pop"))
        /\ (~runStart.mods => ~Has("git stash") /\ ~Has("git stash pop"))

\* The first run cloned; this later run stashed, pulled and tried the pop.
C10_Witness ==
    /\ runStart.initial = "absent" /\ runStart.supabase = "ready" /\ runs = 2
    /\ pc = "prepare_supabase_env"
    /\ Ops(log) = <<"git status", "git stash", "git pull", "git stash pop">>

\* C11: when teardown runs right after a bring-up that finished, every stop
\* (compose down) it issues is scoped to the project 'localai' that bring-up
\* gives all its start commands, whatever other containers the host holds and
\* whatever the working directory is called.
C11_TeardownTargetsLocalai ==
    script = "stop_all" /\ runStart.afterBringUp =>
        \A i \in 1..Len(log) : log[i].op = "compose down" => log[i].project = "localai"

====
